---- MODULE Spec2Model ----
(***************************************************************************)
(* Model of bootloader_hook.py: the backup / replace / restore protocol    *)
(* that swaps the framework's bootloader_start.c for the project's custom   *)
(* file while a PlatformIO build runs.                                      *)
(*                                                                          *)
(* The three files are the durable state.  A file is Absent or holds one    *)
(* content of Contents.  Every shutil.copy / os.remove is one step, so that *)
(* a process can be killed, or a copy can raise, between any two of them.   *)
(* The build tool (script load, then named actions with their registered    *)
(* pre/post callbacks) is the environment that drives the two functions.    *)
(***************************************************************************)
EXTENDS Integers, Sequences, FiniteSets, TLC

\* ---- bounds -------------------------------------------------------------
MaxContent == 2          \* file contents are 1..MaxContent
MaxHist == 2             \* number of most recent calls remembered

\* ---- files --------------------------------------------------------------
Absent == 0              \* os.path.exists(path) is False
Contents == 1..MaxContent
FileStates == Contents \cup {Absent}

VARIABLES
  orig,      \* ORIGINAL_BOOTLOADER_SRC
  bak,       \* BACKUP_BOOTLOADER_SRC
  cust,      \* CUSTOM_BOOTLOADER_SRC
  pc,        \* position of the build process ("off": no process)
  hooks,     \* callbacks registered with AddPreAction / AddPostAction
  ran,       \* actions the build tool has executed in this run
  cur,       \* the action in progress and its outcome
  phase,     \* "pre" / "post": which callback restore_original runs as
  end,       \* how the last run ended, and where it was killed
  prevEnd,   \* the same for the run before the current one
  swapRet,   \* how backup_and_replace ended in this run
  callPre,   \* the files when the call in progress started
  hist,      \* the last MaxHist calls, with the files before and after
  trueOrig   \* the framework's own content of the original file

files == <<orig, bak, cust>>
vars == <<orig, bak, cust, pc, hooks, ran, cur, phase, end, prevEnd,
          swapRet, callPre, hist, trueOrig>>

\* ---- the build tool's named actions ---------------------------------------
Targets == {"buildprog", "upload", "clean"}
Outcomes == {"ok", "fail"}
NoAction == [name |-> "none", outcome |-> "none"]
Ended(k) == [kind |-> k, at |-> "none"]
NoCall == <<Absent, Absent, Absent>>

\* ---- history of calls ---------------------------------------------------
Push(h, r) == IF Len(h) < MaxHist THEN Append(h, r) ELSE Append(Tail(h), r)

Record(op, ret, post) == [op |-> op, ret |-> ret, pre |-> callPre, post |-> post]

SwapPcs == {"load", "sw_replace"}
RestorePcs == {"rs", "rs_remove"}

\* ---- shutil.copy(src, dst): the content dst holds afterwards ------------
Copy(src, dst) == src

\* line 24: the guard of backup_and_replace
OriginalAssumed(o) == TRUE

OriginalExists(o) == o # Absent

\* line 29: a backup is taken only when none exists
AlwaysBackup(b) == TRUE

NeedsBackup(b) == b = Absent

\* line 45: restore acts only when a backup exists
BackupAssumed(b) == TRUE

BackupExists(b) == b # Absent

\* lines 60-65: the callbacks the script registers
RegistrationsNoBuild == {<<"post", "upload">>, <<"pre", "clean">>}

RegistrationsNoClean == {<<"post", "buildprog">>, <<"post", "upload">>}

Registrations == {<<"post", "buildprog">>, <<"post", "upload">>, <<"pre", "clean">>}

Init ==
  /\ orig \in FileStates
  /\ bak = Absent
  /\ cust \in FileStates
  /\ trueOrig = orig
  /\ pc = "off"
  /\ hooks = {}
  /\ ran = {}
  /\ cur = NoAction
  /\ phase = "none"
  /\ end = Ended("none")
  /\ prevEnd = Ended("none")
  /\ swapRet = "pending"
  /\ callPre = NoCall
  /\ hist = <<>>

\* ---- environment: process start, edits of the project file --------------
\* PlatformIO starts a build process and loads the script (line 57 is next).
Start ==
  /\ pc = "off"
  /\ pc' = "load"
  /\ hooks' = {}
  /\ ran' = {}
  /\ cur' = NoAction
  /\ phase' = "none"
  /\ prevEnd' = end
  /\ end' = Ended("running")
  /\ swapRet' = "pending"
  /\ callPre' = files
  /\ UNCHANGED <<orig, bak, cust, hist, trueOrig>>

\* Between two runs the developer edits, removes or creates the custom file.
EditReplacement ==
  /\ pc = "off"
  /\ \E c \in FileStates \ {cust} : cust' = c
  /\ UNCHANGED <<orig, bak, pc, hooks, ran, cur, phase, end, prevEnd,
                 swapRet, callPre, hist, trueOrig>>

\* The process is gone: its registrations and its call stack go with it.
ProcessEnds ==
  /\ pc' = "off"
  /\ hooks' = {}
  /\ cur' = NoAction
  /\ phase' = "none"
  /\ callPre' = NoCall

ProcessGoesOn(p) ==
  /\ pc' = p
  /\ UNCHANGED <<hooks, cur, phase>>
  /\ callPre' = NoCall

\* An uncaught exception ends the process: nothing after the raise runs.
Raise(op) ==
  /\ ProcessEnds
  /\ end' = Ended("aborted")
  /\ hist' = Push(hist, Record(op, "raised", files))
  /\ UNCHANGED <<orig, bak, cust, ran, prevEnd, trueOrig>>

\* ---- backup_and_replace (lines 19-38) -----------------------------------
SwapMissingSource ==
  /\ pc = "load"
  /\ ~OriginalExists(orig)
  /\ ProcessGoesOn("register")
  /\ swapRet' = "skipped"
  /\ hist' = Push(hist, Record("swap", "returned", files))
  /\ UNCHANGED <<orig, bak, cust, ran, end, prevEnd, trueOrig>>

SwapBackupAfterReplace ==
  /\ pc = "load"
  /\ OriginalExists(orig)
  /\ NeedsBackup(bak)
  /\ bak' = Copy(cust, bak)
  /\ pc' = "sw_replace"
  /\ UNCHANGED <<orig, cust, hooks, ran, cur, phase, end, prevEnd,
                 swapRet, callPre, hist, trueOrig>>

SwapBackup ==
  /\ pc = "load"
  /\ OriginalExists(orig)
  /\ NeedsBackup(bak)
  /\ bak' = Copy(orig, bak)
  /\ pc' = "sw_replace"
  /\ UNCHANGED <<orig, cust, hooks, ran, cur, phase, end, prevEnd,
                 swapRet, callPre, hist, trueOrig>>

SwapBackupFails ==
  /\ pc = "load"
  /\ OriginalExists(orig)
  /\ NeedsBackup(bak)
  /\ swapRet' = "raised"
  /\ Raise("swap")

SwapSkipBackupOverwrites ==
  /\ pc = "load"
  /\ OriginalExists(orig)
  /\ ~NeedsBackup(bak)
  /\ bak' = Copy(orig, bak)
  /\ pc' = "sw_replace"
  /\ UNCHANGED <<orig, cust, hooks, ran, cur, phase, end, prevEnd,
                 swapRet, callPre, hist, trueOrig>>

SwapSkipBackup ==
  /\ pc = "load"
  /\ OriginalExists(orig)
  /\ ~NeedsBackup(bak)
  /\ pc' = "sw_replace"
  /\ UNCHANGED <<orig, bak, cust, hooks, ran, cur, phase, end, prevEnd,
                 swapRet, callPre, hist, trueOrig>>

SwapReplaceReversed ==
  /\ pc = "sw_replace"
  /\ cust # Absent
  /\ cust' = Copy(orig, cust)
  /\ ProcessGoesOn("register")
  /\ swapRet' = "returned"
  /\ hist' = Push(hist, Record("swap", "returned", <<orig, bak, cust'>>))
  /\ UNCHANGED <<orig, bak, ran, end, prevEnd, trueOrig>>

SwapReplaceNoCopy ==
  /\ pc = "sw_replace"
  /\ cust # Absent
  /\ ProcessGoesOn("register")
  /\ swapRet' = "returned"
  /\ hist' = Push(hist, Record("swap", "returned", files))
  /\ UNCHANGED <<orig, bak, cust, ran, end, prevEnd, trueOrig>>

SwapReplace ==
  /\ pc = "sw_replace"
  /\ cust # Absent
  /\ orig' = Copy(cust, orig)
  /\ ProcessGoesOn("register")
  /\ swapRet' = "returned"
  /\ hist' = Push(hist, Record("swap", "returned", <<orig', bak, cust>>))
  /\ UNCHANGED <<bak, cust, ran, end, prevEnd, trueOrig>>

SwapReplaceFailsCaught ==
  /\ pc = "sw_replace"
  /\ swapRet' = "raised"
  /\ ProcessGoesOn("register")
  /\ hist' = Push(hist, Record("swap", "raised", files))
  /\ UNCHANGED <<orig, bak, cust, ran, end, prevEnd, trueOrig>>

\* the copy raises: always when the custom file is missing, possibly otherwise
SwapReplaceFails ==
  /\ pc = "sw_replace"
  /\ swapRet' = "raised"
  /\ Raise("swap")

\* ---- script body after backup_and_replace returned (lines 60-65) --------
Register ==
  /\ pc = "register"
  /\ hooks' = Registrations
  /\ pc' = "ready"
  /\ UNCHANGED <<orig, bak, cust, ran, cur, phase, end, prevEnd,
                 swapRet, callPre, hist, trueOrig>>

\* ---- the build tool runs named actions -----------------------------------
\* An action and its post callbacks are over: the next action may start when
\* it succeeded, the run ends when it failed.
AfterAction(outcome) ==
  IF outcome = "ok"
    THEN ProcessGoesOn("ready") /\ end' = end
    ELSE ProcessEnds /\ end' = Ended("failed")

BeginAction ==
  /\ pc = "ready"
  /\ \E a \in Targets \ ran :
       /\ cur' = [name |-> a, outcome |-> "running"]
       /\ IF <<"pre", a>> \in hooks
            THEN pc' = "rs" /\ phase' = "pre" /\ callPre' = files
            ELSE pc' = "act" /\ phase' = "none" /\ callPre' = NoCall
  /\ UNCHANGED <<orig, bak, cust, hooks, ran, end, prevEnd, swapRet,
                 hist, trueOrig>>

FinishAction ==
  /\ pc = "act"
  /\ \E r \in Outcomes :
       /\ ran' = ran \cup {cur.name}
       /\ IF <<"post", cur.name>> \in hooks
            THEN /\ pc' = "rs"
                 /\ phase' = "post"
                 /\ cur' = [cur EXCEPT !.outcome = r]
                 /\ callPre' = files
                 /\ UNCHANGED <<hooks, end>>
            ELSE AfterAction(r)
  /\ UNCHANGED <<orig, bak, cust, prevEnd, swapRet, hist, trueOrig>>

EndRun ==
  /\ pc = "ready"
  /\ ProcessEnds
  /\ end' = Ended("done")
  /\ UNCHANGED <<orig, bak, cust, ran, prevEnd, swapRet, hist, trueOrig>>

\* ---- restore_original (lines 40-52) -------------------------------------
\* the callback returns to the build tool, leaving the files as <<o, b, cust>>
Return(o, b) ==
  /\ IF phase = "pre"
       THEN ProcessGoesOn("act") /\ end' = end
       ELSE AfterAction(cur.outcome)
  /\ hist' = Push(hist, Record("restore", "returned", <<o, b, cust>>))
  /\ UNCHANGED <<cust, ran, prevEnd, swapRet, trueOrig>>

RestoreCopyDeletesFirst ==
  /\ pc = "rs"
  /\ BackupExists(bak)
  /\ bak' = Absent
  /\ pc' = "rs_remove"
  /\ UNCHANGED <<orig, cust, hooks, ran, cur, phase, end, prevEnd,
                 swapRet, callPre, hist, trueOrig>>

RestoreCopy ==
  /\ pc = "rs"
  /\ BackupExists(bak)
  /\ orig' = Copy(bak, orig)
  /\ pc' = "rs_remove"
  /\ UNCHANGED <<bak, cust, hooks, ran, cur, phase, end, prevEnd,
                 swapRet, callPre, hist, trueOrig>>

RestoreCopyFails ==
  /\ pc = "rs"
  /\ BackupExists(bak)
  /\ UNCHANGED swapRet
  /\ Raise("restore")

RestoreRemoveKeepsBackup ==
  /\ pc = "rs_remove"
  /\ UNCHANGED <<orig, bak>>
  /\ Return(orig, bak)

RestoreRemoveOnSuccess ==
  /\ pc = "rs_remove"
  /\ bak' = IF cur.outcome = "fail" THEN bak ELSE Absent
  /\ UNCHANGED orig
  /\ Return(orig, bak')

RestoreRemove ==
  /\ pc = "rs_remove"
  /\ bak' = Absent
  /\ UNCHANGED orig
  /\ Return(orig, Absent)

RestoreRemoveFails ==
  /\ pc = "rs_remove"
  /\ UNCHANGED swapRet
  /\ Raise("restore")

RestoreMissingBackupCopies ==
  /\ pc = "rs"
  /\ ~BackupExists(bak)
  /\ orig' = Copy(bak, orig)
  /\ UNCHANGED bak
  /\ Return(bak, bak)

RestoreMissingBackup ==
  /\ pc = "rs"
  /\ ~BackupExists(bak)
  /\ UNCHANGED <<orig, bak>>
  /\ Return(orig, bak)

\* ---- the process is killed ----------------------------------------------
Crash ==
  /\ pc # "off"
  /\ ProcessEnds
  /\ end' = [kind |-> "crashed", at |-> pc]
  /\ hist' = IF pc \in SwapPcs THEN Push(hist, Record("swap", "crashed", files))
             ELSE IF pc \in RestorePcs
                    THEN Push(hist, Record("restore", "crashed", files))
                    ELSE hist
  /\ UNCHANGED <<orig, bak, cust, ran, prevEnd, swapRet, trueOrig>>

Next ==
  \/ Start
  \/ EditReplacement
  \/ SwapMissingSource
  \/ SwapBackup
  \/ SwapBackupFails
  \/ SwapSkipBackup
  \/ SwapReplace
  \/ SwapReplaceFails
  \/ Register
  \/ BeginAction
  \/ FinishAction
  \/ EndRun
  \/ RestoreCopy
  \/ RestoreCopyFails
  \/ RestoreRemove
  \/ RestoreRemoveFails
  \/ RestoreMissingBackup
  \/ Crash

Spec == Init /\ [][Next]_vars

\* ---- restore_original applied twice to the same files --------------------
\* What the build tool passes to a callback (source, target, env): whether
\* it fires before or after the action, the action, and how the action went.
Contexts ==
  {<<"pre", "clean", "running">>}
    \cup {<<"post", a, r>> : a \in {"buildprog", "upload"}, r \in Outcomes}

FirstContext == <<"post", "buildprog", "ok">>

\* restore_original is entered with some files, after a successful buildprog
InitCtx ==
  /\ orig \in FileStates
  /\ bak \in FileStates
  /\ cust \in FileStates
  /\ trueOrig = orig
  /\ pc = "rs"
  /\ hooks = Registrations
  /\ ran = {}
  /\ phase = FirstContext[1]
  /\ cur = [name |-> FirstContext[2], outcome |-> FirstContext[3]]
  /\ end = Ended("running")
  /\ prevEnd = Ended("none")
  /\ swapRet = "pending"
  /\ callPre = <<orig, bak, cust>>
  /\ hist = <<>>

\* the call is over; the same files are set up again and restore_original is
\* entered with another context
Reinvoke ==
  /\ pc \notin RestorePcs
  /\ Len(hist) = 1
  /\ orig' = hist[1].pre[1]
  /\ bak' = hist[1].pre[2]
  /\ cust' = hist[1].pre[3]
  /\ pc' = "rs"
  /\ hooks' = Registrations
  /\ \E c \in Contexts \ {FirstContext} :
       /\ phase' = c[1]
       /\ cur' = [name |-> c[2], outcome |-> c[3]]
  /\ end' = Ended("running")
  /\ callPre' = hist[1].pre
  /\ UNCHANGED <<ran, prevEnd, swapRet, hist, trueOrig>>

NextCtx ==
  \/ RestoreCopy
  \/ RestoreCopyFails
  \/ RestoreRemove
  \/ RestoreRemoveFails
  \/ RestoreMissingBackup
  \/ Reinvoke

SpecCtx == InitCtx /\ [][NextCtx]_vars

\* ---- properties ---------------------------------------------------------
Done(r, op) == r.op = op /\ r.ret = "returned"
Pairs == 1..(Len(hist) - 1)
EndOfRun(kinds) == pc = "off" /\ end.kind \in kinds

\* a swap_in that started with the original present and no backup, ran to
\* completion and was followed by a completed restore
RoundTripAt(i) ==
  /\ Done(hist[i], "swap")
  /\ hist[i].pre[1] # Absent
  /\ hist[i].pre[2] = Absent
  /\ Done(hist[i + 1], "restore")

\* C1: full-cycle round trip.  From original = O, no backup, replacement = R,
\* a completed swap_in leaves original = R and backup = O, and the restore
\* that follows leaves original = O and no backup.
C1_RoundTrip ==
  \A i \in Pairs :
    RoundTripAt(i) =>
      /\ hist[i].post[1] = hist[i].pre[3]
      /\ hist[i].post[2] = hist[i].pre[1]
      /\ hist[i + 1].post[1] = hist[i].pre[1]
      /\ hist[i + 1].post[2] = Absent

C1_Witness ==
  \E i \in Pairs :
    /\ RoundTripAt(i)
    /\ hist[i].pre[1] # hist[i].pre[3]
    /\ hist[i + 1].post[1] = hist[i].pre[1]

\* swap_in calls i..j follow one another with no restore in between, all run
\* to completion, and the first one found the original and no backup
SwapsInSuccession(i, j) ==
  /\ i < j
  /\ \A k \in i..j : Done(hist[k], "swap")
  /\ hist[i].pre[1] # Absent
  /\ hist[i].pre[2] = Absent

\* C2: idempotent swap.  After two or more swap_in calls in succession the
\* backup holds what the original held before the first call, and the
\* original holds the replacement.
C2_IdempotentSwap ==
  \A i \in 1..Len(hist) : \A j \in 1..Len(hist) :
    SwapsInSuccession(i, j) =>
      /\ hist[j].post[2] = hist[i].pre[1]
      /\ hist[j].post[1] = hist[j].pre[3]

\* the later call found the substituted original and left the backup alone
C2_Witness ==
  \E i \in 1..Len(hist) : \E j \in 1..Len(hist) :
    /\ SwapsInSuccession(i, j)
    /\ hist[i].pre[1] # hist[i].pre[3]
    /\ hist[j].pre[1] # hist[j].pre[2]
    /\ hist[j].post[2] = hist[i].pre[1]

BuildFinished == ran \cap {"buildprog", "upload"} # {}

C4_BuildCompilesReplacement ==
  (pc = "act" /\ cur.name = "buildprog" /\ swapRet = "returned") => orig = cust

\* the current run follows a killed run, and in it swap_in completed the
\* substitution and the restore after it completed
SelfHealed ==
  /\ prevEnd.kind = "crashed"
  /\ swapRet = "returned"
  /\ Len(hist) >= 2
  /\ Done(hist[Len(hist)], "restore")
  /\ Done(hist[Len(hist) - 1], "swap")

\* C5: self-healing.  When the previous run was killed between two file
\* operations, a complete swap_in followed by restore in the next run leaves
\* the original with the true pre-swap content and no backup.
C5_SelfHealing ==
  SelfHealed =>
    /\ hist[Len(hist)].post[1] = trueOrig
    /\ hist[Len(hist)].post[2] = Absent

\* killed after the replacement copy; the replacement was edited before the retry
C5_Witness ==
  /\ SelfHealed
  /\ prevEnd.at \in {"register", "ready", "act", "rs"}
  /\ hist[Len(hist) - 1].pre[2] = trueOrig
  /\ hist[Len(hist) - 1].pre[1] # trueOrig
  /\ hist[Len(hist) - 1].pre[3] # hist[Len(hist) - 1].pre[1]
  /\ hist[Len(hist)].post[1] = trueOrig

\* C6: restore idempotence.  A restore that directly follows a completed
\* restore finds no backup, does not raise and changes neither file.
C6_RestoreIdempotent ==
  \A i \in Pairs :
    (Done(hist[i], "restore") /\ hist[i + 1].op = "restore") =>
      /\ hist[i + 1].ret # "raised"
      /\ hist[i + 1].pre[2] = Absent
      /\ hist[i + 1].post = hist[i + 1].pre
      /\ hist[i + 1].post[1] = hist[i].post[1]

C6_Witness ==
  \E i \in Pairs :
    /\ Done(hist[i], "restore")
    /\ hist[i].pre[2] # Absent
    /\ hist[i].pre[1] # hist[i].post[1]
    /\ Done(hist[i + 1], "restore")

Killed == end'.kind = "crashed"

\* C7: missing-source guard.  swap_in called with the original absent
\* returns without raising and writes no file; the script goes on to
\* register its callbacks and the build tool runs its actions.
C7_MissingSourceGuard ==
  /\ [][(pc = "load" /\ orig = Absent /\ ~Killed)
          => (pc' = "register" /\ files' = files /\ end' = end)]_vars
  /\ [][(pc = "register" /\ swapRet = "skipped" /\ ~Killed)
          => (pc' = "ready" /\ hooks' = Registrations)]_vars

C7_Witness ==
  /\ swapRet = "skipped"
  /\ orig = Absent
  /\ bak = Absent
  /\ cust # Absent
  /\ hooks = Registrations
  /\ "buildprog" \in ran

\* C8: missing-backup guard.  restore called with no backup returns without
\* raising and leaves original, backup and replacement as they were.
C8_MissingBackupGuard ==
  [][(pc = "rs" /\ bak = Absent /\ ~Killed)
       => (files' = files /\ end'.kind # "aborted"
           /\ pc' = (IF phase = "pre" THEN "act"
                     ELSE IF cur.outcome = "ok" THEN "ready" ELSE "off"))]_vars

C8_Witness ==
  /\ Len(hist) > 0
  /\ Done(hist[Len(hist)], "restore")
  /\ hist[Len(hist)].pre[2] = Absent
  /\ hist[Len(hist)].pre[1] # Absent
  /\ hist[Len(hist)].post[1] = hist[Len(hist)].pre[1]
  /\ swapRet = "returned"

\* C9: a copy of swap_in that raises ends the run: no callback is registered
\* and no build action executes in that run.
C9_FailedSwapAborts ==
  swapRet = "raised" =>
    (pc = "off" /\ end.kind = "aborted" /\ hooks = {} /\ ran = {} /\ cur = NoAction)

\* the replacement is missing: the backup was taken, the original not replaced
C9_Witness ==
  /\ swapRet = "raised"
  /\ cust = Absent
  /\ bak # Absent
  /\ bak = orig
  /\ pc = "off"

\* C10: the replacement file is only read.  No step of a build process
\* (swap_in, restore, a raise, a kill, a start) changes its content or
\* existence.
C10_ReplacementReadOnly ==
  [][(pc # "off" \/ pc' # "off") => cust' = cust]_vars

\* after a killed run: a completed swap_in, then a restore whose copy raised
C10_Witness ==
  /\ prevEnd.kind = "crashed"
  /\ end.kind = "aborted"
  /\ \E i \in Pairs :
       /\ Done(hist[i], "swap")
       /\ hist[i].pre[1] # hist[i].pre[3]
       /\ hist[i + 1].op = "restore"
       /\ hist[i + 1].ret = "raised"
       /\ cust = hist[i].pre[3]

\* two completed calls of restore_original on the same files
SameFiles(i, j) ==
  /\ Done(hist[i], "restore")
  /\ Done(hist[j], "restore")
  /\ hist[i].pre = hist[j].pre

\* C11: restore ignores its event context.  Two completed calls of restore
\* on the same files leave the same files, whatever action fired the
\* callback and however that action ended.
C11_ContextIgnored ==
  \A i \in 1..Len(hist) : \A j \in 1..Len(hist) :
    SameFiles(i, j) => hist[i].post = hist[j].post

\* a backup was restored after the successful buildprog and, from the same
\* files, after a failed action
C11_Witness ==
  /\ Len(hist) = 2
  /\ SameFiles(1, 2)
  /\ EndOfRun({"failed"})
  /\ hist[1].pre[2] # Absent
  /\ hist[1].pre[1] # hist[1].pre[2]
  /\ hist[2].post = <<hist[1].pre[2], Absent, hist[1].pre[3]>>

\* call i ended in one of the ways of `rets`, having found the original file
\* when it was a swap_in
OperationEnded(i, rets) ==
  /\ hist[i].ret \in rets
  /\ hist[i].op = "swap" => hist[i].pre[1] # Absent

\* backup present implies original = replacement, in the files call i left
TwoStates(i) == hist[i].post[2] # Absent => hist[i].post[1] = hist[i].post[3]

\* C12 as stated: after every operation that ended, by returning or by an
\* uncaught copy failure, a backup that exists implies that the original
\* holds the replacement content.
C12_AsStated ==
  \A i \in 1..Len(hist) : OperationEnded(i, {"returned", "raised"}) => TwoStates(i)

\* C12 (amended): after every operation that ended by returning, a backup
\* that exists implies that the original holds the replacement content.
C12_TwoStatesOnReturn ==
  \A i \in 1..Len(hist) : OperationEnded(i, {"returned"}) => TwoStates(i)

C12_Witness ==
  /\ Len(hist) > 0
  /\ Done(hist[Len(hist)], "swap")
  /\ pc = "register"
  /\ bak # Absent
  /\ orig = cust
  /\ orig # bak
  /\ hist[Len(hist)].post = files

\* this step ends a call of restore_original by returning
RestoreReturns ==
  /\ pc \in RestorePcs
  /\ pc' \notin RestorePcs
  /\ ~Killed
  /\ end'.kind # "aborted"

\* C13: restore ordering.  The backup is deleted only by the step of restore
\* that follows the successful backup-to-original copy, and that step is the
\* one with which a restoring call returns; when the copy raises the backup
\* stays as it was; no step ever changes the content of an existing backup.
C13_RestoreOrdering ==
  /\ [][(bak # Absent /\ bak' = Absent)
          => (pc = "rs_remove" /\ orig = bak /\ orig' = orig /\ RestoreReturns)]_vars
  /\ [][(RestoreReturns /\ bak # Absent) => bak' = Absent]_vars
  /\ [][(pc = "rs" /\ end'.kind = "aborted") => (bak' = bak /\ bak' # Absent)]_vars
  /\ [][bak # Absent => bak' \in {bak, Absent}]_vars

C13_Witness ==
  /\ Len(hist) > 0
  /\ Done(hist[Len(hist)], "restore")
  /\ hist[Len(hist)].pre[2] # Absent
  /\ hist[Len(hist)].pre[1] # hist[Len(hist)].pre[2]
  /\ hist[Len(hist)].post[1] = hist[Len(hist)].pre[2]
  /\ bak = Absent
  /\ orig = trueOrig
  /\ pc = "ready"

\* C14: the backup always captures the true original.  With every copy and
\* delete one step, from a tree without backup, whenever the backup exists it
\* holds the content the original had to begin with.
C14_BackupIsOriginal ==
  bak # Absent => bak = trueOrig

\* after a killed run and an edit, the replace copy of the retry raised
C14_Witness ==
  /\ bak # Absent
  /\ bak = trueOrig
  /\ orig # bak
  /\ cust # orig
  /\ prevEnd.kind = "crashed"
  /\ end.kind = "aborted"
  /\ swapRet = "raised"

\* C15: no loss of the original content.  In every state, also between the
\* steps of swap_in and restore, after a kill and after a raise, the original
\* or the backup holds the content the original had to begin with.
C15_OriginalNeverLost ==
  orig = trueOrig \/ bak = trueOrig

\* between the two copies of a swap_in that found a backup left by a killed run
C15_Witness ==
  /\ pc = "sw_replace"
  /\ prevEnd.kind = "crashed"
  /\ trueOrig # Absent
  /\ orig # trueOrig
  /\ bak = trueOrig
  /\ cust # orig

\* one of the three events fired: an action ran, or restore raised as callback
Fired == ran # {} \/ (end.kind = "aborted" /\ swapRet = "returned")

Restored == bak = Absent /\ orig = trueOrig

\* the run's only call was swap_in, and the files are as it left them
StillSwapped ==
  /\ bak # Absent
  /\ Len(hist) > 0
  /\ Done(hist[Len(hist)], "swap")
  /\ hist[Len(hist)].post[1] = hist[Len(hist)].pre[3]
  /\ orig = hist[Len(hist)].post[1]
  /\ bak = hist[Len(hist)].post[2]

\* callbacks are registered only after swap_in returned, all three together
RegisteredAfterSwap ==
  /\ hooks \in {{}, {<<"post", "buildprog">>, <<"post", "upload">>, <<"pre", "clean">>}}
  /\ hooks # {} => swapRet \in {"returned", "skipped"}

TypeOK ==
  /\ orig \in FileStates
  /\ bak \in FileStates
  /\ cust \in FileStates
  /\ trueOrig \in FileStates
  /\ Len(hist) <= MaxHist
====
